---- MODULE Spec2Model ----
(***************************************************************************)
(* A model of k8s/go/cmd/resolver/resolver.go: the image publisher, the    *)
(* default tag-resolution policy (resolveString), the document walk        *)
(* (resolveItem / resolveList / resolveMap), the multi-document codec loop *)
(* (resolveYAML), the raw-byte substitution of resolveTemplate, the image  *)
(* spec parser and main's unused-image check.                              *)
(*                                                                         *)
(* Specifications:                                                         *)
(*   Spec        one run of main from publish to exit                      *)
(*   SpecYAML    resolver.resolveYAML alone, on a longer stream            *)
(*   SpecLayers  parseImageSpec followed by imageSpec.layers               *)
(*   SpecSubst   resolveTemplate's substitution loop on raw bytes          *)
(*   SpecMap     the loop of resolver.resolveMap, one iteration per step   *)
(***************************************************************************)
EXTENDS Integers, Sequences, FiniteSets, TLC

VARIABLES
    \* ---- Spec: one run of main ----
    pc,              \* position of main
    flags,           \* lib.Flags: NoPush, ImgChroot, AllowUnusedImages
    specs,           \* main's specs, the parsed --image_spec list
    pub,             \* publish's frame: idx, overrides, unseen, and what it returned
    calls,           \* the calls of publishSingle, in call order: index and error
    resolver,        \* r, the resolver built by resolveTemplate (maps shared with main)
    trace,           \* the resolveString calls of the run, in call order
    decoded,         \* the documents d.Decode returned so far, with the resolver before each
    buf,             \* resolveYAML: documents handed to e.Encode, in order
    eof,             \* resolveYAML: done, the decoder returned io.EOF
    stdout,          \* what fmt.Println wrote: a sequence of document lists
    logged,          \* names written by log.Printf in main's unused-image report
    exit,            \* process exit code, -1 while running
    \* ---- SpecLayers ----
    lpc, specStr, parsed, layersRet,
    \* ---- SpecSubst ----
    spc, raw, subs, todo, text, seen,
    \* ---- SpecMap ----
    mpc, mIn, mLeft, mResult, mR, mLog, mErr,
    \* ---- SpecItem ----
    ipc, iIn, iW, iOut, iErr

mainVars == <<pc, flags, specs, pub, calls, resolver,
              trace, decoded, buf, eof, stdout, logged, exit>>
layerVars == <<lpc, specStr, parsed, layersRet>>
substVars == <<spc, raw, subs, todo, text, seen>>
mapVars == <<mpc, mIn, mLeft, mResult, mR, mLog, mErr>>
itemVars == <<ipc, iIn, iW, iOut, iErr>>
vars == <<mainVars, layerVars, substVars, mapVars, itemVars>>

\* ------------------------------------------------------------------ bounds
MaxSpecs == 2
MaxDocs == 2
MaxStream == 3
MaxLayers == 2
MaxText == 3
MaxPairs == 2

\* ----------------------------------------------------------------- strings
\* The strings of the model and what the collaborators make of them.
T1 == "gcr.io/foo/bar:v1"
T2 == "gcr.io/foo/bar:v2"
ST == "gcr.io/foo/bar:{BUILD_USER}"
NI == "not-an-image"
BAD == "gcr.io/Foo/bar:v1"
Chroot == "mirror.io"

\* errors: nil is NoErr; fmt.Errorf wraps by prefixing the context
NoErr == <<>>
Errorf(ctx, err) == <<ctx>> \o err

\* compat.Stamper.Stamp: replaces {BUILD_USER} by the stamp file's value.
Stamp(s) == IF s = ST THEN "gcr.io/foo/bar:alice" ELSE s

\* path.Join(flags.ImgChroot, stampedName)
PathJoin(a, b) == a \o "/" \o b

\* name.NewTag(s, name.StrictValidation): registry and tag must be explicit,
\* repository lower-case, tag of [A-Za-z0-9_.-].
NewTagStrict(s) ==
    IF s \in {T1, T2, "gcr.io/foo/bar:alice"}
    THEN [ok |-> TRUE, registry |-> "gcr.io", repository |-> "foo/bar"]
    ELSE [ok |-> FALSE, registry |-> "", repository |-> ""]

\* name.NewTag(s, name.WeakValidation): registry defaults to index.docker.io
\* (repository under library/), the tag to latest; the first path component
\* is the registry iff it contains '.' or ':'.
NewTagWeak(s) ==
    CASE s \in {T1, T2, "gcr.io/foo/bar:alice"} ->
           [ok |-> TRUE, registry |-> "gcr.io", repository |-> "foo/bar"]
      [] s = NI ->
           [ok |-> TRUE, registry |-> "index.docker.io", repository |-> "library/not-an-image"]
      [] s \in {PathJoin(Chroot, T1), PathJoin(Chroot, T2),
                PathJoin(Chroot, "gcr.io/foo/bar:alice")} ->
           [ok |-> TRUE, registry |-> Chroot, repository |-> "gcr.io/foo/bar"]
      [] OTHER -> [ok |-> FALSE, registry |-> "", repository |-> ""]

\* fmt.Sprintf("%s/%s@%v", registry, repository, digest)
DigestRef(t, d) == t.registry \o "/" \o t.repository \o "@" \o d

\* the digests a registry may report for a tag
Digests == {"sha256:d1", "sha256:d2"}

\* ---------------------------------------------------------------- imageSpec
ImageSpec(n, tb, cf, dg, di, cl, ul) ==
    [name |-> n, imgTarball |-> tb, imgConfig |-> cf, digests |-> dg,
     diffIDs |-> di, compressedLayers |-> cl, uncomressedLayers |-> ul]

\* Strings that are parsed or formatted are sequences of tokens: the
\* delimiters ";", "=" and "," and words free of delimiters.
\* strings.Join(parts, sep)
RECURSIVE Join(_, _)
Join(parts, sep) ==
    IF parts = <<>> THEN <<>>
    ELSE IF Len(parts) = 1 THEN parts[1]
    ELSE parts[1] \o <<sep>> \o Join(Tail(parts), sep)

\* fmt.Sprintf("%s,%s,%s,%s", compressedLayer, uncompressedLayer, digest, diffID)
\* for layer i
LayerToken(s, i) ==
    Join(<<s.compressedLayers[i], s.uncomressedLayers[i], s.digests[i], s.diffIDs[i]>>, ",")

\* l[i], or a placeholder past the end
AtOr(l, i) == IF i <= Len(l) THEN l[i] ELSE <<"?">>

\* a mutant of layers: the length check compares only digests and diffIDs
LayersChecksTwo(s) ==
    IF Len(s.digests) # Len(s.diffIDs)
    THEN [result |-> <<>>,
          err |-> <<"unequal lengths", s.name, Len(s.digests), Len(s.diffIDs),
                    Len(s.compressedLayers), Len(s.uncomressedLayers)>>]
    ELSE [result |-> [i \in 1..Len(s.digests) |->
                        Join(<<AtOr(s.compressedLayers, i), AtOr(s.uncomressedLayers, i),
                               s.digests[i], s.diffIDs[i]>>, ",")],
          err |-> NoErr]

\* imageSpec.layers
Layers(s) ==
    IF \/ Len(s.digests) # Len(s.diffIDs)
       \/ Len(s.diffIDs) # Len(s.compressedLayers)
       \/ Len(s.compressedLayers) # Len(s.uncomressedLayers)
    THEN [result |-> <<>>,
          err |-> <<"unequal lengths", s.name, Len(s.digests), Len(s.diffIDs),
                    Len(s.compressedLayers), Len(s.uncomressedLayers)>>]
    ELSE [result |-> [i \in 1..Len(s.digests) |-> LayerToken(s, i)],
          err |-> NoErr]

\* ------------------------------------------------------------ parseImageSpec
\* strings.Split(s, sep): the pieces between the occurrences of sep, one
\* more than there are occurrences
RECURSIVE SplitFrom(_, _, _, _)
SplitFrom(s, sep, k, cur) ==
    IF k > Len(s) THEN <<cur>>
    ELSE IF s[k] = sep THEN <<cur>> \o SplitFrom(s, sep, k + 1, <<>>)
    ELSE SplitFrom(s, sep, k + 1, Append(cur, s[k]))

Split(s, sep) == SplitFrom(s, sep, 1, <<>>)

\* strings.SplitN(s, sep, 2): split at the first occurrence of sep only
SplitN2(s, sep) ==
    IF \E k \in 1..Len(s) : s[k] = sep
    THEN LET k == CHOOSE k \in 1..Len(s) : s[k] = sep /\ \A j \in 1..(k - 1) : s[j] # sep
         IN  <<SubSeq(s, 1, k - 1), SubSeq(s, k + 1, Len(s))>>
    ELSE <<s>>

\* imageSpec{}
ZeroImageSpec == ImageSpec(<<>>, <<>>, <<>>, <<>>, <<>>, <<>>, <<>>)

\* parseImageSpec's loop from item k of splitSpec on
RECURSIVE ParseItems(_, _, _)
ParseItems(splitSpec, k, result) ==
    IF k > Len(splitSpec) THEN [spec |-> result, err |-> NoErr]
    ELSE LET splitFields == SplitN2(splitSpec[k], "=")
             key == splitFields[1]
         IN  IF Len(splitFields) # 2
             THEN [spec |-> ZeroImageSpec,
                   err |-> <<"split by '=' into unexpected fields", splitSpec[k], Len(splitFields)>>]
             ELSE CASE key = <<"name">> ->
                         ParseItems(splitSpec, k + 1, [result EXCEPT !.name = splitFields[2]])
                    [] key = <<"tarball">> ->
                         ParseItems(splitSpec, k + 1, [result EXCEPT !.imgTarball = splitFields[2]])
                    [] key = <<"config">> ->
                         ParseItems(splitSpec, k + 1, [result EXCEPT !.imgConfig = splitFields[2]])
                    [] key = <<"diff_id">> ->
                         ParseItems(splitSpec, k + 1,
                                    [result EXCEPT !.diffIDs = Split(splitFields[2], ",")])
                    [] key = <<"digest">> ->
                         ParseItems(splitSpec, k + 1,
                                    [result EXCEPT !.digests = Split(splitFields[2], ",")])
                    [] key = <<"compressed_layer">> ->
                         ParseItems(splitSpec, k + 1,
                                    [result EXCEPT !.compressedLayers = Split(splitFields[2], ",")])
                    [] key = <<"uncompressed_layer">> ->
                         ParseItems(splitSpec, k + 1,
                                    [result EXCEPT !.uncomressedLayers = Split(splitFields[2], ",")])
                    [] OTHER ->
                         [spec |-> ZeroImageSpec, err |-> <<"unknown image spec field", key>>]

\* parseImageSpec
ParseImageSpec(spec) == ParseItems(Split(spec, ";"), 1, ZeroImageSpec)

\* the image specs main may be given
SpecA == ImageSpec(T1, <<"a.tar">>, <<"a.json">>,
                   << <<"a.sha">> >>, << <<"a.diff">> >>, << <<"a.tgz">> >>, << <<"a.lay">> >>)
SpecB == ImageSpec(ST, <<"b.tar">>, <<"b.json">>, <<>>, <<>>, <<>>, <<>>)
SpecBadName == ImageSpec(BAD, <<"c.tar">>, <<"c.json">>, <<>>, <<>>, <<>>, <<>>)
SpecBadLayers == ImageSpec(T2, <<"d.tar">>, <<"d.json">>,
                           << <<"d.sha">>, <<"e.sha">> >>, << <<"d.diff">> >>,
                           << <<"d.tgz">> >>, << <<"d.lay">> >>)
ImageSpecs == {SpecA, SpecB, SpecBadName, SpecBadLayers}

\* img.Digest(): the content digest of the image read from the spec's files
ImageDigest(s) == IF s.name = T1 THEN "sha256:d1" ELSE "sha256:d3"

\* what the collaborators of publishSingle may answer: all succeed, or the
\* named one fails
ExtOutcomes == {"ok", "parts", "read", "auth", "push", "digest"}

\* publishSingle, with the collaborators' answer ext
PublishSingle(spec, fl, ext) ==
    LET l == Layers(spec)
        stampedName == Stamp(spec.name)
        n == IF fl.ImgChroot # "" THEN PathJoin(fl.ImgChroot, stampedName) ELSE stampedName
        t == NewTagWeak(n)
    IN  IF l.err # NoErr THEN [ref |-> "", err |-> Errorf("unable to convert the layer parts", l.err)]
        ELSE IF ext = "parts" THEN [ref |-> "", err |-> <<"unable to determine parts of the image">>]
        ELSE IF ext = "read" THEN [ref |-> "", err |-> <<"error reading image">>]
        ELSE IF ~t.ok THEN [ref |-> "", err |-> <<"unable to create a docker tag", n>>]
        ELSE IF ext = "auth" THEN [ref |-> "", err |-> <<"unable to get authenticator", n>>]
        ELSE IF ~fl.NoPush /\ ext = "push" THEN [ref |-> "", err |-> <<"unable to push image", n>>]
        ELSE IF ext = "digest" THEN [ref |-> "", err |-> <<"unable to get digest of image", n>>]
        ELSE [ref |-> DigestRef(t, ImageDigest(spec)), err |-> NoErr]

\* map[string]string as a function; m[k] = v
EmptyMap == [k \in {} |-> ""]
Put(m, k, v) == [x \in (DOMAIN m) \cup {k} |-> IF x = k THEN v ELSE m[x]]


\* ------------------------------------------------------------ interface{}
\* A decoded YAML value: one record shape for every dynamic type.
\* kind: "str" (s), "int" / "bool" (s holds the literal), "list" (items),
\* "map" (pairs: a set of <<key, value>> with distinct keys), "nil".
Node(k, s, items, pairs) == [kind |-> k, s |-> s, items |-> items, pairs |-> pairs]
Str(s) == Node("str", s, <<>>, {})
IntN(s) == Node("int", s, <<>>, {})
BoolN(s) == Node("bool", s, <<>>, {})
List(items) == Node("list", "", items, {})
Map(pairs) == Node("map", "", <<>>, pairs)
NilV == Node("nil", "", <<>>, {})

\* a mutant of the map write: an entry already present is kept
MapPutKeepsFirst(result, rk, rv) ==
    IF \E q \in result : q[1] = rk THEN result ELSE result \cup {<<rk, rv>>}

\* result[rk] = rv on a Go map held as a set of pairs
MapPut(result, rk, rv) == {q \in result : q[1] # rk} \cup {<<rk, rv>>}

\* ----------------------------------------------------------- resolveString
\* What authn.DefaultKeychain.Resolve and remote.Get may answer for one call:
\* "auth" (no credentials), "get" (the fetch fails), or the tag's digest.
NetOutcomes == {"auth", "get"} \cup Digests

\* one return of resolveString: the resolver after the call, the returned
\* string and error, the return statement taken, and the collaborators called
StrRet(r, val, err, step, creds, fetched) ==
    [r |-> r, val |-> val, err |-> err, step |-> step, creds |-> creds, fetched |-> fetched]

\* mutants of resolveString
\* a failed fetch is returned as an error
ResolveStringFatalFetch(r, s) ==
    LET r1 == [r EXCEPT !.unseen = r.unseen \ {s}]
        t == NewTagStrict(s)
    IN  IF s \in DOMAIN r.resolvedImages
        THEN {StrRet(r1, r.resolvedImages[s], NoErr, "cached", FALSE, FALSE)}
        ELSE IF ~t.ok
        THEN {StrRet(r1, s, NoErr, "parse", FALSE, FALSE)}
        ELSE {IF net = "auth" THEN StrRet(r1, s, NoErr, "auth", TRUE, FALSE)
              ELSE IF net = "get" THEN StrRet(r1, s, <<"fetch failed", s>>, "get", TRUE, TRUE)
              ELSE StrRet([r1 EXCEPT !.resolvedImages = Put(r.resolvedImages, s, DigestRef(t, net))],
                          DigestRef(t, net), NoErr, "ok", TRUE, TRUE)
              : net \in NetOutcomes}

\* a string that does not parse is memoized as itself
ResolveStringCachesUnparsed(r, s) ==
    LET r1 == [r EXCEPT !.unseen = r.unseen \ {s}]
        t == NewTagStrict(s)
    IN  IF s \in DOMAIN r.resolvedImages
        THEN {StrRet(r1, r.resolvedImages[s], NoErr, "cached", FALSE, FALSE)}
        ELSE IF ~t.ok
        THEN {StrRet([r1 EXCEPT !.resolvedImages = Put(r.resolvedImages, s, s)],
                     s, NoErr, "parse", FALSE, FALSE)}
        ELSE {IF net = "auth" THEN StrRet(r1, s, NoErr, "auth", TRUE, FALSE)
              ELSE IF net = "get" THEN StrRet(r1, s, NoErr, "get", TRUE, TRUE)
              ELSE StrRet([r1 EXCEPT !.resolvedImages = Put(r.resolvedImages, s, DigestRef(t, net))],
                          DigestRef(t, net), NoErr, "ok", TRUE, TRUE)
              : net \in NetOutcomes}

\* the cache is written but never read
ResolveStringNoCacheCheck(r, s) ==
    LET r1 == [r EXCEPT !.unseen = r.unseen \ {s}]
        t == NewTagStrict(s)
    IN  IF ~t.ok
        THEN {StrRet(r1, s, NoErr, "parse", FALSE, FALSE)}
        ELSE {IF net = "auth" THEN StrRet(r1, s, NoErr, "auth", TRUE, FALSE)
              ELSE IF net = "get" THEN StrRet(r1, s, NoErr, "get", TRUE, TRUE)
              ELSE StrRet([r1 EXCEPT !.resolvedImages = Put(r.resolvedImages, s, DigestRef(t, net))],
                          DigestRef(t, net), NoErr, "ok", TRUE, TRUE)
              : net \in NetOutcomes}

\* the unseen set is updated after the cache lookup has returned
ResolveStringMarksAfterLookup(r, s) ==
    LET r1 == [r EXCEPT !.unseen = r.unseen \ {s}]
        t == NewTagStrict(s)
    IN  IF s \in DOMAIN r.resolvedImages
        THEN {StrRet(r, r.resolvedImages[s], NoErr, "cached", FALSE, FALSE)}
        ELSE IF ~t.ok
        THEN {StrRet(r1, s, NoErr, "parse", FALSE, FALSE)}
        ELSE {IF net = "auth" THEN StrRet(r1, s, NoErr, "auth", TRUE, FALSE)
              ELSE IF net = "get" THEN StrRet(r1, s, NoErr, "get", TRUE, TRUE)
              ELSE StrRet([r1 EXCEPT !.resolvedImages = Put(r.resolvedImages, s, DigestRef(t, net))],
                          DigestRef(t, net), NoErr, "ok", TRUE, TRUE)
              : net \in NetOutcomes}

\* resolveString: the set of its possible returns for resolver r and string s
ResolveString(r, s) ==
    LET r1 == [r EXCEPT !.unseen = r.unseen \ {s}]
        t == NewTagStrict(s)
    IN  IF s \in DOMAIN r.resolvedImages
        THEN {StrRet(r1, r.resolvedImages[s], NoErr, "cached", FALSE, FALSE)}
        ELSE IF ~t.ok
        THEN {StrRet(r1, s, NoErr, "parse", FALSE, FALSE)}
        ELSE {IF net = "auth" THEN StrRet(r1, s, NoErr, "auth", TRUE, FALSE)
              ELSE IF net = "get" THEN StrRet(r1, s, NoErr, "get", TRUE, TRUE)
              ELSE StrRet([r1 EXCEPT !.resolvedImages = Put(r.resolvedImages, s, DigestRef(t, net))],
                          DigestRef(t, net), NoErr, "ok", TRUE, TRUE)
              : net \in NetOutcomes}

\* r.strResolver(r, s): the injected string policy
\* "resolveString" is the policy resolveTemplate installs; the others are
\* policies a caller of the resolver may install in its place: "suffix" marks
\* every string, "same" answers one string for all, "failB" fails on "b"
StrResolver(r, s) ==
    IF r.strResolver = "resolveString" THEN ResolveString(r, s)
    ELSE IF r.strResolver = "suffix" THEN {StrRet(r, s \o "-r", NoErr, "suffix", FALSE, FALSE)}
    ELSE IF r.strResolver = "same" THEN {StrRet(r, "k", NoErr, "same", FALSE, FALSE)}
    ELSE IF r.strResolver = "failB" /\ s = "b"
    THEN {StrRet(r, "", <<"policy failed", s>>, "failB", FALSE, FALSE)}
    ELSE {StrRet(r, s, NoErr, "none", FALSE, FALSE)}

\* the record kept of one call of the string policy
CallEntry(r, s, o) ==
    [s |-> s, pre |-> r, post |-> o.r, ret |-> o.val, err |-> o.err,
     step |-> o.step, creds |-> o.creds, fetched |-> o.fetched]

\* --------------------------------------------- resolveItem / List / Map
\* The walk threads w = [r: the resolver, tr: the policy calls made so far]
\* and yields the set of its possible outcomes [w, val, err]: one per answer
\* of the registry and per iteration order of each Go map.
Out(w, val, err) == [w |-> w, val |-> val, err |-> err]

RECURSIVE ResolveItem(_, _)
RECURSIVE ResolveListFrom(_, _, _, _)
RECURSIVE ResolveMapFrom(_, _, _)

\* resolveItem's string case: return r.strResolver(r, s)
ResolveStr(w, s) ==
    {Out([r |-> o.r, tr |-> Append(w.tr, CallEntry(w.r, s, o))],
         IF o.err = NoErr THEN Str(o.val) ELSE NilV, o.err)
     : o \in StrResolver(w.r, s)}

\* a mutant of resolveList: each resolved element is put in front
ResolveListPrepends(w, l, k, result) ==
    IF k > Len(l) THEN {Out(w, List(result), NoErr)}
    ELSE UNION {IF o.err # NoErr
                THEN {Out(o.w, NilV, Errorf("error resolving item in list", o.err))}
                ELSE ResolveListFrom(o.w, l, k + 1, <<o.val>> \o result)
                : o \in ResolveItem(w, l[k])}

\* resolveList: the range loop from element k on, result holding the
\* resolved elements before k
ResolveListFrom(w, l, k, result) ==
    IF k > Len(l) THEN {Out(w, List(result), NoErr)}
    ELSE UNION {IF o.err # NoErr
                THEN {Out(o.w, NilV, Errorf("error resolving item in list", o.err))}
                ELSE ResolveListFrom(o.w, l, k + 1, Append(result, o.val))
                : o \in ResolveItem(w, l[k])}

ResolveList(w, l) == ResolveListFrom(w, l, 1, <<>>)

\* one iteration of resolveMap's range loop, for the pair p = <<k, v>>:
\* the possible [w, result, err] after result[rk] = rv, with rk and rv
MapIter(w, result, p) ==
    UNION {IF ko.err # NoErr
           THEN {[w |-> ko.w, result |-> result, rk |-> NilV, rv |-> NilV,
                  err |-> Errorf("error resolving key in map", ko.err)]}
           ELSE {IF vo.err # NoErr
                 THEN [w |-> vo.w, result |-> result, rk |-> ko.val, rv |-> NilV,
                       err |-> Errorf("error resolving value in map", vo.err)]
                 ELSE [w |-> vo.w, result |-> MapPut(result, ko.val, vo.val),
                       rk |-> ko.val, rv |-> vo.val, err |-> NoErr]
                 : vo \in ResolveItem(ko.w, p[2])}
           : ko \in ResolveItem(w, p[1])}

\* resolveMap: the range loop over the pairs left, in any order
ResolveMapFrom(w, left, result) ==
    IF left = {} THEN {Out(w, Map(result), NoErr)}
    ELSE UNION {UNION {IF o.err # NoErr
                       THEN {Out(o.w, NilV, o.err)}
                       ELSE ResolveMapFrom(o.w, left \ {p}, o.result)
                       : o \in MapIter(w, result, p)}
                : p \in left}

ResolveMap(w, m) == ResolveMapFrom(w, m, {})

\* resolveItem
ResolveItem(w, i) ==
    CASE i.kind = "str" -> ResolveStr(w, i.s)
      [] i.kind = "list" -> ResolveList(w, i.items)
      [] i.kind = "map" -> ResolveMap(w, i.pairs)
      [] OTHER -> {Out(w, i, NoErr)}

\* ------------------------------------------------------------------ yamlDoc
\* yamlDoc{}: the zero value
ZeroDoc ==
    [vList |-> NilV, vMap |-> NilV, isInt |-> FALSE, vInt |-> "0",
     isBool |-> FALSE, vBool |-> "false", isStr |-> FALSE, vStr |-> ""]

\* yamlDoc.UnmarshalYAML on the YAML node n: list, map, int, bool, string in
\* this order; a null node unmarshals into the list as nil
UnmarshalYAML(y, n) ==
    CASE n.kind \in {"list", "nil"} -> [y EXCEPT !.vList = n]
      [] n.kind = "map" -> [y EXCEPT !.vMap = n]
      [] n.kind = "int" -> [y EXCEPT !.isInt = TRUE, !.vInt = n.s]
      [] n.kind = "bool" -> [y EXCEPT !.isBool = TRUE, !.vBool = n.s]
      [] OTHER -> [y EXCEPT !.isStr = TRUE, !.vStr = n.s]

\* yamlDoc.val
Val(y) ==
    IF y.vList # NilV THEN y.vList
    ELSE IF y.vMap # NilV THEN y.vMap
    ELSE IF y.isInt THEN IntN(y.vInt)
    ELSE IF y.isBool THEN BoolN(y.vBool)
    ELSE IF y.isStr THEN Str(y.vStr)
    ELSE NilV

\* a mutant of resolveYAML's loop body: a nil value is encoded and counted too
YAMLIterEncodesNil(w, b, y) ==
    {IF o.err # NoErr
     THEN [w |-> o.w, buf |-> b, err |-> Errorf("error resolving YAML template", o.err)]
     ELSE [w |-> [o.w EXCEPT !.r.numDocs = @ + 1], buf |-> Append(b, o.val), err |-> NoErr]
     : o \in ResolveItem(w, Val(y))}

\* the body of resolveYAML's loop after d.Decode(&y): resolve y.val() and
\* encode it unless nil; the possible [w, buf, err]
YAMLIter(w, b, y) ==
    {IF o.err # NoErr
     THEN [w |-> o.w, buf |-> b, err |-> Errorf("error resolving YAML template", o.err)]
     ELSE IF o.val # NilV
     THEN [w |-> [o.w EXCEPT !.r.numDocs = @ + 1], buf |-> Append(b, o.val), err |-> NoErr]
     ELSE [w |-> o.w, buf |-> b, err |-> NoErr]
     : o \in ResolveItem(w, Val(y))}

\* the documents a template stream may hold
YamlDocs ==
    {NilV,
     Str(NI),
     IntN("0"),
     List(<<Str(T1), BoolN("true")>>),
     Map({<<Str("image"), Str(T1)>>}),
     Map({<<Str(ST), List(<<Str(T2)>>)>>})}


\* ------------------------------------------------------------------ publish
\* publish's frame on entry: empty overrides and unseen, nothing returned
PubInit ==
    [idx |-> 1, overrides |-> EmptyMap, unseen |-> {}, returned |-> FALSE,
     nilMaps |-> FALSE, err |-> NoErr]

\* a mutant of publish's loop: a failed spec is skipped, the loop goes on
PublishIterContinues(p, spec, fl, ext) ==
    LET digestRef == PublishSingle(spec, fl, ext)
    IN  IF digestRef.err # NoErr
        THEN [p EXCEPT !.idx = p.idx + 1]
        ELSE [p EXCEPT !.overrides = Put(p.overrides, spec.name, digestRef.ref),
                       !.unseen = p.unseen \cup {spec.name},
                       !.idx = p.idx + 1]

\* one iteration of publish's range loop for spec, the collaborators answering ext
PublishIter(p, spec, fl, ext) ==
    LET digestRef == PublishSingle(spec, fl, ext)
    IN  IF digestRef.err # NoErr
        THEN [p EXCEPT !.returned = TRUE, !.nilMaps = TRUE, !.err = digestRef.err]
        ELSE [p EXCEPT !.overrides = Put(p.overrides, spec.name, digestRef.ref),
                       !.unseen = p.unseen \cup {spec.name},
                       !.idx = p.idx + 1]

\* sequences over S of length at most n
SeqsUpTo(S, n) == UNION {[1..k -> S] : k \in 0..n}

\* the variables of the other specifications, at rest
LayersIdle ==
    /\ lpc = "idle" /\ specStr = <<>> /\ parsed = <<>> /\ layersRet = <<>>
SubstIdle ==
    /\ spc = "idle" /\ raw = <<>> /\ subs = {} /\ todo = {} /\ text = <<>> /\ seen = <<>>
MapIdle ==
    /\ mpc = "idle" /\ mIn = {} /\ mLeft = {} /\ mResult = {}
    /\ mR = [r |-> [resolvedImages |-> EmptyMap, unseen |-> {},
                    strResolver |-> "resolveString", numDocs |-> 0], tr |-> <<>>]
    /\ mLog = <<>> /\ mErr = NoErr
ItemIdle ==
    /\ ipc = "idle" /\ iIn = NilV /\ iOut = NilV /\ iErr = NoErr
    /\ iW = [r |-> [resolvedImages |-> EmptyMap, unseen |-> {},
                    strResolver |-> "resolveString", numDocs |-> 0], tr |-> <<>>]

\* --------------------------------------------------------------------- main
\* main after flag parsing and parseImageSpec: about to call publish
Init ==
    /\ pc = "publish"
    /\ flags \in [NoPush : BOOLEAN, ImgChroot : {"", Chroot}, AllowUnusedImages : BOOLEAN]
    /\ specs \in SeqsUpTo(ImageSpecs, MaxSpecs)
    /\ pub = PubInit
    /\ calls = <<>>
    /\ resolver = [resolvedImages |-> EmptyMap, unseen |-> {},
                   strResolver |-> "resolveString", numDocs |-> 0]
    /\ trace = <<>>
    /\ decoded = <<>>
    /\ buf = <<>>
    /\ eof = FALSE
    /\ stdout = <<>>
    /\ logged = {}
    /\ exit = -1
    /\ LayersIdle /\ SubstIdle /\ MapIdle /\ ItemIdle

\* publish: one iteration of the loop; main ends with log.Fatalf when publish
\* returns an error
PublishStep ==
    /\ pc = "publish"
    /\ ~pub.returned
    /\ pub.idx <= Len(specs)
    /\ \E ext \in ExtOutcomes :
          /\ pub' = PublishIter(pub, specs[pub.idx], flags, ext)
          /\ calls' = Append(calls, [idx |-> pub.idx,
                                     err |-> PublishSingle(specs[pub.idx], flags, ext).err])
    /\ IF pub'.err # NoErr
       THEN pc' = "exit" /\ exit' = 1
       ELSE UNCHANGED <<pc, exit>>
    /\ UNCHANGED <<flags, specs, resolver, trace, decoded, buf, eof, stdout, logged>>
    /\ UNCHANGED <<layerVars, substVars, mapVars, itemVars>>

\* publish: the loop is over, return overrides, unseen, nil
PublishReturn ==
    /\ pc = "publish"
    /\ ~pub.returned
    /\ pub.idx > Len(specs)
    /\ pub' = [pub EXCEPT !.returned = TRUE]
    /\ pc' = "resolveTemplate"
    /\ UNCHANGED <<flags, specs, calls, resolver, trace, decoded, buf, eof, stdout,
                   logged, exit>>
    /\ UNCHANGED <<layerVars, substVars, mapVars, itemVars>>

\* resolveTemplate up to the call of resolveYAML: read the template (the
\* substitutions on its bytes are SpecSubst's), build the resolver on main's
\* two maps
ResolveTemplateStart ==
    /\ pc = "resolveTemplate"
    /\ \E readOK \in BOOLEAN :
          IF readOK
          THEN /\ resolver' = [resolvedImages |-> pub.overrides, unseen |-> pub.unseen,
                               strResolver |-> "resolveString", numDocs |-> 0]
               /\ pc' = "resolveYAML"
               /\ UNCHANGED exit
          ELSE /\ pc' = "exit" /\ exit' = 1
               /\ UNCHANGED resolver
    /\ UNCHANGED <<flags, specs, pub, calls, trace, decoded, buf, eof, stdout, logged>>
    /\ UNCHANGED <<layerVars, substVars, mapVars, itemVars>>

\* resolveYAML: one iteration of the loop. d.Decode yields the next document
\* n, or io.EOF (y stays yamlDoc{}), or another error.
ResolveYAMLIter(maxDocs) ==
    /\ pc = "resolveYAML"
    /\ \E dec \in {"doc", "eof", "error"} :
          IF dec = "error"
          THEN /\ pc' = "exit" /\ exit' = 1
               /\ UNCHANGED <<resolver, trace, decoded, buf, eof>>
          ELSE /\ dec = "doc" => Len(decoded) < maxDocs
               /\ \E n \in (IF dec = "doc" THEN YamlDocs ELSE {NilV}) :
                  \E o \in YAMLIter([r |-> resolver, tr |-> trace], buf,
                                    IF dec = "doc" THEN UnmarshalYAML(ZeroDoc, n) ELSE ZeroDoc) :
                     /\ resolver' = o.w.r
                     /\ trace' = o.w.tr
                     /\ decoded' = IF dec = "doc"
                                   THEN Append(decoded, [node |-> n, pre |-> resolver])
                                   ELSE decoded
                     /\ buf' = o.buf
                     /\ IF o.err # NoErr
                        THEN pc' = "exit" /\ exit' = 1 /\ UNCHANGED eof
                        ELSE /\ eof' = (dec = "eof")
                             /\ pc' = IF dec = "eof" THEN "println" ELSE pc
                             /\ UNCHANGED exit
    /\ UNCHANGED <<flags, specs, pub, calls, stdout, logged>>
    /\ UNCHANGED <<layerVars, substVars, mapVars, itemVars>>

\* resolveYAML within a run of main
ResolveYAMLStep == ResolveYAMLIter(MaxDocs)

\* resolveTemplate after resolveYAML returned: fmt.Println(string(resolved))
ResolveTemplateReturn ==
    /\ pc = "println"
    /\ stdout' = Append(stdout, buf)
    /\ pc' = "unused"
    /\ UNCHANGED <<flags, specs, pub, calls, resolver, trace, decoded, buf, eof, logged, exit>>
    /\ UNCHANGED <<layerVars, substVars, mapVars, itemVars>>

\* a mutant of main's last statement: --allow_unused_images is not consulted
UnusedReportIgnoresFlag(unseen, allowUnused) ==
    IF Cardinality(unseen) > 0
    THEN [logged |-> unseen, exit |-> 1]
    ELSE [logged |-> {}, exit |-> 0]

\* main's last statement: what it logs and how it exits, given the unseen
\* set and --allow_unused_images
UnusedReport(unseen, allowUnused) ==
    IF Cardinality(unseen) > 0 /\ ~allowUnused
    THEN [logged |-> unseen, exit |-> 1]
    ELSE [logged |-> {}, exit |-> 0]

\* main: the unused-image check on the unseen set the resolver shares
UnusedCheck ==
    /\ pc = "unused"
    /\ LET u == UnusedReport(resolver.unseen, flags.AllowUnusedImages)
       IN  logged' = u.logged /\ exit' = u.exit
    /\ pc' = "exit"
    /\ UNCHANGED <<flags, specs, pub, calls, resolver, trace, decoded, buf, eof, stdout>>
    /\ UNCHANGED <<layerVars, substVars, mapVars, itemVars>>

Next ==
    \/ PublishStep
    \/ PublishReturn
    \/ ResolveTemplateStart
    \/ ResolveYAMLStep
    \/ ResolveTemplateReturn
    \/ UnusedCheck

Spec == Init /\ [][Next]_vars

\* ----------------------------------------------------------------- SpecYAML
\* resolveYAML on a resolver built as resolveTemplate builds it, from an
\* empty publish result or from one published image
YAMLSeeds ==
    {[resolvedImages |-> EmptyMap, unseen |-> {}],
     [resolvedImages |-> Put(EmptyMap, T1, "gcr.io/foo/bar@sha256:d1"), unseen |-> {T1}]}

InitYAML ==
    /\ pc = "resolveYAML"
    /\ flags = [NoPush |-> FALSE, ImgChroot |-> "", AllowUnusedImages |-> FALSE]
    /\ specs = <<>>
    /\ \E seed \in YAMLSeeds :
          /\ pub = [PubInit EXCEPT !.overrides = seed.resolvedImages,
                                   !.unseen = seed.unseen, !.returned = TRUE]
          /\ resolver = [resolvedImages |-> seed.resolvedImages, unseen |-> seed.unseen,
                         strResolver |-> "resolveString", numDocs |-> 0]
    /\ calls = <<>>
    /\ trace = <<>>
    /\ decoded = <<>>
    /\ buf = <<>>
    /\ eof = FALSE
    /\ stdout = <<>>
    /\ logged = {}
    /\ exit = -1
    /\ LayersIdle /\ SubstIdle /\ MapIdle /\ ItemIdle

\* resolveYAML on a stream of at most MaxStream documents
StreamStep == ResolveYAMLIter(MaxStream)

NextYAML == StreamStep

SpecYAML == InitYAML /\ [][NextYAML]_vars


\* --------------------------------------------------------------- SpecLayers
\* The --image_spec strings: for each list key a comma-joined list of lens[j]
\* words (the key is left out when lens[j] = 0), written in ascending or
\* descending order, with or without the name, and one of the extras.
ListKeys == <<"digest", "diff_id", "compressed_layer", "uncompressed_layer">>
Extras == {"none", "files", "unknown", "noeq", "eqvalue", "dup", "trailing"}

\* the j-th list: n words that tell their key and place
ListFor(j, n, rev) ==
    [i \in 1..n |-> <<ListKeys[j] \o ToString(IF rev THEN n + 1 - i ELSE i)>>]

\* key=value
Field(key, val) == <<key, "=">> \o val

ExtraFields(extra) ==
    CASE extra = "files" -> <<Field("tarball", <<"t.tar">>), Field("config", <<"c.json">>)>>
      [] extra = "unknown" -> <<Field("bogus", <<"x">>)>>
      [] extra = "noeq" -> << <<"tarball">> >>
      [] extra = "eqvalue" -> <<Field("tarball", <<"a", "=", "b">>)>>
      [] extra = "dup" -> <<Field("digest", <<"dup">>)>>
      [] extra = "trailing" -> << <<>> >>
      [] OTHER -> <<>>

SpecString(lens, rev, withName, extra) ==
    Join((IF withName THEN <<Field("name", <<"img">>)>> ELSE <<>>)
         \o SelectSeq([j \in 1..4 |-> IF lens[j] = 0 THEN <<>>
                                      ELSE Field(ListKeys[j], Join(ListFor(j, lens[j], rev), ","))],
                      LAMBDA f : f # <<>>)
         \o ExtraFields(extra), ";")

MainIdle ==
    /\ pc = "idle"
    /\ flags = [NoPush |-> FALSE, ImgChroot |-> "", AllowUnusedImages |-> FALSE]
    /\ specs = <<>> /\ pub = PubInit /\ calls = <<>>
    /\ resolver = [resolvedImages |-> EmptyMap, unseen |-> {},
                   strResolver |-> "resolveString", numDocs |-> 0]
    /\ trace = <<>> /\ decoded = <<>> /\ buf = <<>> /\ eof = FALSE
    /\ stdout = <<>> /\ logged = {} /\ exit = -1

InitLayers ==
    /\ lpc = "start"
    /\ \E lens \in [1..4 -> 0..MaxLayers], rev \in BOOLEAN, withName \in BOOLEAN,
          extra \in Extras :
          specStr = [lens |-> lens, rev |-> rev, withName |-> withName, extra |-> extra,
                     str |-> SpecString(lens, rev, withName, extra)]
    /\ parsed = [spec |-> ZeroImageSpec, err |-> NoErr]
    /\ layersRet = [result |-> <<>>, err |-> NoErr]
    /\ MainIdle /\ SubstIdle /\ MapIdle /\ ItemIdle

\* main's loop body: spec, err := parseImageSpec(s), fatal on error
ParseStep ==
    /\ lpc = "start"
    /\ parsed' = ParseImageSpec(specStr.str)
    /\ lpc' = IF parsed'.err # NoErr THEN "fatal" ELSE "parsed"
    /\ UNCHANGED <<specStr, layersRet>>
    /\ UNCHANGED <<mainVars, substVars, mapVars, itemVars>>

\* publishSingle's first statement: layers, err := spec.layers()
LayersStep ==
    /\ lpc = "parsed"
    /\ layersRet' = Layers(parsed.spec)
    /\ lpc' = "done"
    /\ UNCHANGED <<specStr, parsed>>
    /\ UNCHANGED <<mainVars, substVars, mapVars, itemVars>>

NextLayers == ParseStep \/ LayersStep

SpecLayers == InitLayers /\ [][NextLayers]_vars

\* ---------------------------------------------------------------- SpecSubst
\* resolveTemplate on raw bytes. A template is a sequence of bytes; "-" stands
\* for the framing between two scalars of the stream, the other bytes make up
\* the scalars.
\* bytes.ReplaceAll(t, old, new) from byte k on: the leftmost occurrences that
\* do not overlap; an empty old matches before every byte and at the end
RECURSIVE ReplaceFrom(_, _, _, _)
ReplaceFrom(t, old, new, k) ==
    IF old = <<>>
    THEN IF k > Len(t) THEN new ELSE new \o <<t[k]>> \o ReplaceFrom(t, old, new, k + 1)
    ELSE IF k > Len(t) THEN <<>>
    ELSE IF k + Len(old) - 1 <= Len(t) /\ SubSeq(t, k, k + Len(old) - 1) = old
    THEN new \o ReplaceFrom(t, old, new, k + Len(old))
    ELSE <<t[k]>> \o ReplaceFrom(t, old, new, k + 1)

ReplaceAll(t, old, new) == ReplaceFrom(t, old, new, 1)

\* the decoder and the walk on the substituted bytes: the scalar strings of
\* the stream, in order, as they are handed to r.strResolver
DecodeStrings(t) == SelectSeq(Split(t, "-"), LAMBDA piece : piece # <<>>)

\* the substitution files: search strings and their replacements
SubstKeys == {<<"x">>, <<"y">>, <<"x", "y">>}
SubstValues == {<<>>, <<"x">>, <<"y">>, <<"z">>}
SubstMaps == UNION {[K -> SubstValues] : K \in SUBSET SubstKeys}
Templates == SeqsUpTo({"x", "y", "-"}, MaxText)

InitSubst ==
    /\ spc = "substitute"
    /\ raw \in Templates
    /\ subs \in SubstMaps
    /\ todo = DOMAIN subs
    /\ text = raw
    /\ seen = <<>>
    /\ MainIdle /\ LayersIdle /\ MapIdle /\ ItemIdle

\* one iteration of `for k, v := range substitutions`, in Go's map order:
\* any key not yet visited
SubstStep ==
    /\ spc = "substitute"
    /\ \E k \in todo :
          /\ text' = ReplaceAll(text, k, subs[k])
          /\ todo' = todo \ {k}
    /\ UNCHANGED <<spc, raw, subs, seen>>
    /\ UNCHANGED <<mainVars, layerVars, mapVars, itemVars>>

\* the loop is over: r.resolveYAML(bytes.NewReader(t)) decodes t and hands
\* its strings to the resolver
SubstResolve ==
    /\ spc = "substitute"
    /\ todo = {}
    /\ seen' = DecodeStrings(text)
    /\ spc' = "resolved"
    /\ UNCHANGED <<raw, subs, todo, text>>
    /\ UNCHANGED <<mainVars, layerVars, mapVars, itemVars>>

NextSubst == SubstStep \/ SubstResolve

SpecSubst == InitSubst /\ [][NextSubst]_vars

\* ------------------------------------------------------------------ SpecMap
\* resolver.resolveMap, one iteration of its range loop per step, on the
\* maps of at most MaxPairs pairs over these keys and values
DR1 == "gcr.io/foo/bar@sha256:d1"
MapKeys == {Str(T1), Str(T2), Str(DR1), IntN("1")}
MapValues == {Str("a"), Str(T1), List(<<Str("b")>>)}
MapInputs ==
    {m \in SUBSET (MapKeys \X MapValues) :
        /\ Cardinality(m) <= MaxPairs
        /\ \A p, q \in m : p[1] = q[1] => p = q}

InitMap ==
    /\ mpc = "loop"
    /\ mIn \in MapInputs
    /\ mLeft = mIn
    /\ mResult = {}
    /\ \E seed \in YAMLSeeds :
          mR = [r |-> [resolvedImages |-> seed.resolvedImages, unseen |-> seed.unseen,
                       strResolver |-> "resolveString", numDocs |-> 0],
                tr |-> <<>>]
    /\ mLog = <<>>
    /\ mErr = NoErr
    /\ MainIdle /\ LayersIdle /\ SubstIdle /\ ItemIdle

\* one iteration of `for k, v := range m`: Go visits the pairs in any order
MapStep ==
    /\ mpc = "loop"
    /\ \E p \in mLeft :
       \E o \in MapIter(mR, mResult, p) :
          /\ mR' = o.w
          /\ mResult' = o.result
          /\ mErr' = o.err
          /\ mLeft' = mLeft \ {p}
          /\ mLog' = Append(mLog, [k |-> p[1], v |-> p[2], rk |-> o.rk, rv |-> o.rv])
          /\ mpc' = IF o.err # NoErr THEN "failed" ELSE mpc
    /\ UNCHANGED mIn
    /\ UNCHANGED <<mainVars, layerVars, substVars, itemVars>>

\* the loop is over: return result, nil
MapReturn ==
    /\ mpc = "loop"
    /\ mLeft = {}
    /\ mpc' = "returned"
    /\ UNCHANGED <<mIn, mLeft, mResult, mR, mLog, mErr>>
    /\ UNCHANGED <<mainVars, layerVars, substVars, itemVars>>

NextMap == MapStep \/ MapReturn

SpecMap == InitMap /\ [][NextMap]_vars

\* ----------------------------------------------------------------- SpecItem
\* resolver.resolveItem, called once on a tree, under each string policy
MaxElems == 2
MaxEntries == 2
Policies == {"resolveString", "suffix", "same", "failB"}
ItemLeaves == {Str("a"), Str("b"), Str(T1), IntN("1"), BoolN("true"), NilV}
ItemKeys == {Str("a"), Str("b"), Str(T1), Str(DR1), IntN("1")}
ItemVals == {Str("a"), NilV, List(<<Str("b"), IntN("1")>>)}
ItemLists == {List(l) : l \in SeqsUpTo(ItemLeaves, MaxElems)}
ItemMaps ==
    {Map(m) : m \in {m \in SUBSET (ItemKeys \X ItemVals) :
                        /\ Cardinality(m) <= MaxEntries
                        /\ \A p, q \in m : p[1] = q[1] => p = q}}
ItemNested == {List(<<Map({p}), IntN("1")>>) : p \in ItemKeys \X ItemVals}
ItemTrees == ItemLeaves \cup ItemLists \cup ItemMaps \cup ItemNested

InitItem ==
    /\ ipc = "call"
    /\ iIn \in ItemTrees
    /\ \E policy \in Policies, seed \in YAMLSeeds :
          /\ policy # "resolveString" => seed.unseen = {}
          /\ iW = [r |-> [resolvedImages |-> seed.resolvedImages, unseen |-> seed.unseen,
                          strResolver |-> policy, numDocs |-> 0],
                   tr |-> <<>>]
    /\ iOut = NilV
    /\ iErr = NoErr
    /\ MainIdle /\ LayersIdle /\ SubstIdle /\ MapIdle

\* o, err := r.resolveItem(i)
ItemCall ==
    /\ ipc = "call"
    /\ \E o \in ResolveItem(iW, iIn) :
          /\ iW' = o.w
          /\ iOut' = o.val
          /\ iErr' = o.err
    /\ ipc' = "returned"
    /\ UNCHANGED iIn
    /\ UNCHANGED <<mainVars, layerVars, substVars, mapVars>>

NextItem == ItemCall

SpecItem == InitItem /\ [][NextItem]_vars


\* ============================================================== properties
\* the strings that occur as scalar strings in a decoded value: map keys,
\* map values, list elements, the value itself
RECURSIVE StringsOf(_)
StringsOf(n) ==
    CASE n.kind = "str" -> {n.s}
      [] n.kind = "list" -> UNION {StringsOf(n.items[i]) : i \in 1..Len(n.items)}
      [] n.kind = "map" -> UNION {StringsOf(p[1]) \cup StringsOf(p[2]) : p \in n.pairs}
      [] OTHER -> {}

PublishedNames == {specs[i].name : i \in 1..Len(specs)}
TraceIdx == 1..Len(trace)
\* resolveYAML has walked the stream so far without an error
Walked == pub.returned /\ ~pub.nilMaps /\ (eof \/ decoded # <<>>)

\* C1: resolveString never returns an error, and when the strict parse, the
\* credential lookup or the descriptor fetch fails for a string that is not
\* a cache key it returns the string itself and leaves the cache as it was.
C1_FailOpen ==
    \A i \in TraceIdx :
        LET e == trace[i]
        IN  /\ e.err = NoErr
            /\ (e.s \notin DOMAIN e.pre.resolvedImages /\ e.step \in {"parse", "auth", "get"})
                  => /\ e.ret = e.s
                     /\ e.post.resolvedImages = e.pre.resolvedImages

\* C1 witness: one run in which a parse, a credential lookup and a fetch failed
C1_Witness ==
    /\ \E i \in TraceIdx : trace[i].step = "parse"
    /\ \E i \in TraceIdx : trace[i].step = "auth"
    /\ \E i \in TraceIdx : trace[i].step = "get" /\ trace[i].ret = trace[i].s

\* C2 as stated: every string that does not parse as a strict tag is
\* returned unchanged, in every state reachable after publish.
C2_Original ==
    \A i \in TraceIdx :
        ~NewTagStrict(trace[i].s).ok => trace[i].ret = trace[i].s

\* C2 amended: a string that does not parse as a strict tag and is not a
\* cache key is returned unchanged and not added to the cache; one that is a
\* cache key (a published name) yields its cached value; the cache is left
\* as it was in both cases and a second call returns the same.
C2_NonImagePassThrough ==
    \A i \in TraceIdx :
        LET e == trace[i]
        IN  ~NewTagStrict(e.s).ok =>
              /\ e.ret = IF e.s \in DOMAIN e.pre.resolvedImages
                         THEN e.pre.resolvedImages[e.s] ELSE e.s
              /\ e.post.resolvedImages = e.pre.resolvedImages
              /\ \A o \in ResolveString(e.post, e.s) :
                    o.val = e.ret /\ o.err = NoErr /\ o.r = e.post

\* C2 witness: an unpublished non-image string went through the resolver,
\* and so did a published name that is no strict tag
C2_Witness ==
    /\ \E i \in TraceIdx : trace[i].s = NI /\ trace[i].ret = NI
    /\ \E i \in TraceIdx : trace[i].s = ST /\ trace[i].step = "cached"

\* C3: a cache entry never changes once present, a call for a cache key
\* returns the cached value with no credential lookup and no fetch, and no
\* string is fetched successfully twice.
C3_CacheIsStable ==
    /\ \A i \in TraceIdx :
          LET e == trace[i]
          IN  /\ \A k \in DOMAIN e.pre.resolvedImages :
                    /\ k \in DOMAIN e.post.resolvedImages
                    /\ e.post.resolvedImages[k] = e.pre.resolvedImages[k]
              /\ e.s \in DOMAIN e.pre.resolvedImages
                    => e.ret = e.pre.resolvedImages[e.s] /\ ~e.creds /\ ~e.fetched
              /\ e.pre.resolvedImages =
                    IF i = 1 THEN pub.overrides ELSE trace[i - 1].post.resolvedImages
    /\ trace # <<>> => resolver.resolvedImages = trace[Len(trace)].post.resolvedImages
    /\ \A i, j \in TraceIdx :
          (i < j /\ trace[i].s = trace[j].s) => ~(trace[i].step = "ok" /\ trace[j].step = "ok")

\* C3 witness: a string fetched once and then served from the cache, and a
\* published name served from the seeded cache
C3_Witness ==
    /\ \E i, j \in TraceIdx :
          /\ i < j /\ trace[i].s = trace[j].s
          /\ trace[i].step = "ok" /\ trace[j].step = "cached"
          /\ trace[j].ret = trace[i].ret
    /\ \E i \in TraceIdx : trace[i].s \in DOMAIN pub.overrides

\* C4: the unseen set never gains a member, and after walking the documents
\* decoded so far it is the published names minus the strings that occurred
\* in them.
C4_UnseenTracksUsage ==
    /\ \A i \in TraceIdx : trace[i].post.unseen \subseteq trace[i].pre.unseen
    /\ resolver.unseen \subseteq PublishedNames
    /\ Walked =>
          resolver.unseen =
             PublishedNames \ UNION {StringsOf(decoded[i].node) : i \in 1..Len(decoded)}

\* C4 witness: two names published, one of them used as a map key, the other
\* left unseen after two documents
C4_Witness ==
    /\ Walked /\ Len(decoded) = 2
    /\ PublishedNames = {T1, ST}
    /\ resolver.unseen = {T1}
    /\ \E i \in 1..Len(decoded) : decoded[i].node.kind = "map"

\* C5: publishSingle is called for the specs in list order, nothing is
\* called after a failed call, and then publish returns no maps and main
\* exits without writing a resolved document.
C5_PublishFailFast ==
    /\ \A i \in 1..Len(calls) :
          /\ calls[i].idx = i
          /\ i < Len(calls) => calls[i].err = NoErr
    /\ (calls # <<>> /\ calls[Len(calls)].err # NoErr) =>
          /\ pub.returned /\ pub.nilMaps /\ pub.err = calls[Len(calls)].err
          /\ pc = "exit" /\ exit = 1
          /\ stdout = <<>> /\ buf = <<>> /\ decoded = <<>>

\* C5 witness: the first of two specs failed
C5_Witness ==
    /\ Len(specs) = 2 /\ Len(calls) = 1
    /\ calls[1].err # NoErr
    /\ pc = "exit"

\* C6: once publish and the template resolution have succeeded, the run
\* ends fatally and reports the unseen names iff the unseen set is not empty
\* and --allow_unused_images is not set; otherwise it exits zero and reports
\* nothing.
C6_UnusedImagesFatal ==
    (pc = "exit" /\ stdout # <<>>) =>
        IF resolver.unseen # {} /\ ~flags.AllowUnusedImages
        THEN exit = 1 /\ logged = resolver.unseen
        ELSE exit = 0 /\ logged = {}

\* C6 witness: scenario C, two published names, only one of them in the
\* template, the option unset
C6_Witness ==
    /\ pc = "exit" /\ stdout # <<>>
    /\ PublishedNames = {T1, ST}
    /\ resolver.unseen = {ST}
    /\ ~flags.AllowUnusedImages
    /\ exit = 1 /\ logged = {ST}

\* the decoded documents that are not the empty/null variant
NonEmptyDocs == SelectSeq(decoded, LAMBDA d : d.node.kind # "nil")

\* C8: the loop ends at end-of-stream; the documents encoded are the
\* resolved forms of the non-empty documents decoded, in input order; an
\* empty document adds no output and does not count in numDocs.
C8_StreamOutput ==
    /\ pc = "resolveYAML" => ~eof
    /\ eof => pc = "println"
    /\ Len(buf) = Len(NonEmptyDocs)
    /\ resolver.numDocs = Len(NonEmptyDocs)
    /\ \A j \in 1..Len(buf) :
          buf[j] \in {o.val : o \in ResolveItem([r |-> NonEmptyDocs[j].pre, tr |-> <<>>],
                                                NonEmptyDocs[j].node)}

\* C8 witness: an empty document between two others, then end-of-stream
C8_Witness ==
    /\ eof
    /\ Len(decoded) = 3
    /\ decoded[1].node.kind # "nil" /\ decoded[2].node.kind = "nil"
    /\ decoded[3].node.kind # "nil"
    /\ Len(buf) = 2


\* the four layer lists of an imageSpec, in the order of the error message
LayerLists(s) == <<s.digests, s.diffIDs, s.compressedLayers, s.uncomressedLayers>>
SameLengths(s) == \A a, b \in 1..4 : Len(LayerLists(s)[a]) = Len(LayerLists(s)[b])

\* C9: layers() fails iff the four lists differ in length, the error naming
\* the image and the four lengths; otherwise token i is
\* compressedLayer[i],uncompressedLayer[i],digest[i],diffID[i], one per
\* index and in order; a well-formed spec string parses to the lists it was
\* written from.
C9_LayersTokens ==
    /\ lpc \in {"parsed", "done"} /\ specStr.extra \in {"none", "files"} =>
          /\ parsed.err = NoErr
          /\ parsed.spec.name = IF specStr.withName THEN <<"img">> ELSE <<>>
          /\ \A j \in 1..4 :
                LayerLists(parsed.spec)[j] = ListFor(j, specStr.lens[j], specStr.rev)
    /\ specStr.extra \in {"unknown", "noeq", "trailing"} => lpc \in {"start", "fatal"}
    /\ lpc = "done" =>
          LET s == parsed.spec
          IN  /\ layersRet.err # NoErr <=> ~SameLengths(s)
              /\ ~SameLengths(s) =>
                    /\ layersRet.err = <<"unequal lengths", s.name>>
                                        \o [a \in 1..4 |-> Len(LayerLists(s)[a])]
                    /\ layersRet.result = <<>>
              /\ SameLengths(s) =>
                    /\ Len(layersRet.result) = Len(s.digests)
                    /\ \A i \in 1..Len(s.digests) :
                          layersRet.result[i] =
                             s.compressedLayers[i] \o <<",">> \o s.uncomressedLayers[i]
                             \o <<",">> \o s.digests[i] \o <<",">> \o s.diffIDs[i]

\* C9 witness: a well-formed string with four lists of two, written in
\* descending order, parsed and turned into two tokens
C9_Witness ==
    /\ lpc = "done"
    /\ specStr.extra = "none" /\ specStr.rev
    /\ layersRet.err = NoErr
    /\ layersRet.result =
          << <<"compressed_layer2", ",", "uncompressed_layer2", ",", "digest2", ",", "diff_id2">>,
             <<"compressed_layer1", ",", "uncompressed_layer1", ",", "digest1", ",", "diff_id1">> >>


\* sub occurs in t
Contains(t, sub) ==
    \E k \in 1..(Len(t) + 1) :
        k + Len(sub) - 1 <= Len(t) /\ SubSeq(t, k, k + Len(sub) - 1) = sub

\* C7: the substitutions are applied to the raw bytes before anything is
\* decoded: the resolver sees the strings of the substituted text, and for
\* every substitution map a key that occurs in the raw template has been
\* replaced by its value, so that the resolver does not see the original.
C7_SubstitutedBeforeResolve ==
    /\ spc = "substitute" => seen = <<>>
    /\ spc = "resolved" =>
          /\ todo = {}
          /\ seen = DecodeStrings(text)
          /\ \A k \in DOMAIN subs :
                Contains(raw, k) =>
                   /\ Contains(text, subs[k])
                   /\ subs[k] # k => text # raw

\* the part of C7 that holds of every run: nothing is decoded before the
\* last substitution, and a map of one entry replaces its key
C7_Order ==
    /\ spc = "substitute" => seen = <<>>
    /\ spc = "resolved" =>
          /\ todo = {}
          /\ seen = DecodeStrings(text)
          /\ \A k \in DOMAIN subs :
                (DOMAIN subs = {k} /\ Contains(raw, k)) =>
                   /\ text = ReplaceAll(raw, k, subs[k])
                   /\ Contains(text, subs[k])
                   /\ subs[k] # k => text # raw


\* the last place in the insertion log where the resolved key is rk
LastInsert(rk) ==
    CHOOSE i \in 1..Len(mLog) :
        mLog[i].rk = rk /\ \A j \in (i + 1)..Len(mLog) : mLog[j].rk # rk

\* C10: resolveMap resolves every key and every value, inserting the
\* resolved pairs in visiting order; the result holds one entry per distinct
\* resolved key, and where two original keys resolve to the same string the
\* entry holds the value of the pair inserted later.
C10_LastWriteWins ==
    /\ {<<mLog[i].k, mLog[i].v>> : i \in 1..Len(mLog)} = mIn \ mLeft
    /\ Len(mLog) = Cardinality(mIn \ mLeft)
    /\ mpc = "returned" => mLeft = {} /\ mErr = NoErr
    /\ \A i \in 1..Len(mLog) :
          /\ StringsOf(mLog[i].k) \cup StringsOf(mLog[i].v)
                \subseteq {mR.tr[n].s : n \in 1..Len(mR.tr)}
          /\ mLog[i].k.kind = "str" =>
                \E n \in 1..Len(mR.tr) :
                    mR.tr[n].s = mLog[i].k.s /\ mLog[i].rk = Str(mR.tr[n].ret)
          /\ mLog[i].k.kind # "str" => mLog[i].rk = mLog[i].k
    /\ {q[1] : q \in mResult} = {mLog[i].rk : i \in 1..Len(mLog)}
    /\ Cardinality(mResult) = Cardinality({mLog[i].rk : i \in 1..Len(mLog)})
    /\ \A q \in mResult : q[2] = mLog[LastInsert(q[1])].rv

\* C10 witness: two distinct keys resolved to the same string with different
\* values, and the result holds the one entry of the pair visited last
C10_Witness ==
    /\ mpc = "returned"
    /\ Len(mLog) = 2
    /\ mLog[1].k # mLog[2].k
    /\ mLog[1].rk = mLog[2].rk
    /\ mLog[1].rv # mLog[2].rv
    /\ mResult = {<<mLog[2].rk, mLog[2].rv>>}

\* the number of string nodes of a tree
RECURSIVE StrCount(_)
RECURSIVE StrCountPairs(_)
StrCountPairs(ps) ==
    IF ps = {} THEN 0
    ELSE LET p == CHOOSE q \in ps : TRUE
         IN  StrCount(p[1]) + StrCount(p[2]) + StrCountPairs(ps \ {p})
StrCount(n) ==
    CASE n.kind = "str" -> 1
      [] n.kind = "list" ->
            IF n.items = <<>> THEN 0
            ELSE StrCount(Head(n.items)) + StrCount(List(Tail(n.items)))
      [] n.kind = "map" -> StrCountPairs(n.pairs)
      [] OTHER -> 0

\* o is the tree i with every string replaced by what a call of the policy on
\* it returned; keepPairs: a mapping keeps the number of its pairs
RECURSIVE Replaced(_, _, _)
Replaced(i, o, keepPairs) ==
    CASE i.kind = "str" ->
            /\ o.kind = "str"
            /\ \E n \in 1..Len(iW.tr) : iW.tr[n].s = i.s /\ iW.tr[n].ret = o.s
      [] i.kind = "list" ->
            /\ o.kind = "list"
            /\ Len(o.items) = Len(i.items)
            /\ \A k \in 1..Len(i.items) : Replaced(i.items[k], o.items[k], keepPairs)
      [] i.kind = "map" ->
            /\ o.kind = "map"
            /\ \A p, q \in o.pairs : p[1] = q[1] => p = q
            /\ \A q \in o.pairs : \E p \in i.pairs :
                  Replaced(p[1], q[1], keepPairs) /\ Replaced(p[2], q[2], keepPairs)
            /\ \A p \in i.pairs : \E q \in o.pairs : Replaced(p[1], q[1], keepPairs)
            /\ keepPairs => Cardinality(o.pairs) = Cardinality(i.pairs)
      [] OTHER -> o = i

\* the policy was called once per string node, and on nothing else
OnlyStringsPassed ==
    /\ Len(iW.tr) = StrCount(iIn)
    /\ {iW.tr[n].s : n \in 1..Len(iW.tr)} = StringsOf(iIn)

\* C11 as stated: when the policy does not fail, resolveItem returns a tree
\* of the same shape (every sequence of the same length and order, every
\* mapping with as many pairs) with each string replaced by the policy's
\* result, and integers, booleans and nulls unchanged and never passed on.
C11_Original ==
    ipc = "returned" /\ iErr = NoErr =>
        Replaced(iIn, iOut, TRUE) /\ OnlyStringsPassed

\* C11 amended: when the policy does not fail, resolveItem returns a tree in
\* which each string is replaced by the policy's result for it, every
\* sequence keeps its length and order, integers, booleans and nulls are
\* unchanged and never passed to the policy, and every mapping holds one pair
\* per distinct resolved key, so pairs whose keys resolve alike collapse.
C11_ShapeUpToKeyCollisions ==
    ipc = "returned" /\ iErr = NoErr =>
        Replaced(iIn, iOut, FALSE) /\ OnlyStringsPassed

\* C11 witness: a sequence of a string and an integer came back with the
\* string replaced by a different one and the integer unchanged, the policy
\* called once
C11_Witness ==
    /\ ipc = "returned" /\ iErr = NoErr
    /\ iIn.kind = "list" /\ Len(iIn.items) = 2
    /\ iIn.items[1].kind = "str" /\ iIn.items[2].kind = "int"
    /\ iOut.kind = "list" /\ Len(iOut.items) = 2
    /\ iOut.items[1].kind = "str" /\ iOut.items[1].s # iIn.items[1].s
    /\ iOut.items[2] = iIn.items[2]
    /\ Len(iW.tr) = 1

====
